---------------------------- MODULE Spec2Model ----------------------------
(***************************************************************************)
(* A model of the riege-xterm terminal engine (src/core/ui.rs,             *)
(* src/core/repl_new.rs, src/core/api.rs, src/core/logger_new.rs).         *)
(*                                                                         *)
(* A Rust String is modelled as a sequence of characters; a character is   *)
(* a one-element TLA+ string, except "U+E9" which stands for a character   *)
(* whose UTF-8 encoding is two bytes long.  Offsets into a String (the     *)
(* cursor, String::len) are BYTE offsets, as in the code.                  *)
(***************************************************************************)
EXTENDS Integers, Sequences, FiniteSets, TLC

(***************************************************************************)
(* Bounds of the model.                                                    *)
(***************************************************************************)
\* Capacity of the message log.  The code sets 1000 (ui.rs:82); the model
\* runs the same code with a small capacity so that eviction happens.
MAX_MESSAGES == 3
\* log calls per producer thread
MaxCalls == 2
\* characters of a text handed to one log call in the single-call study
MaxTextLen == 4
\* rows of the log region (chunks[0].height) offered to draw
MaxHeight == 4

LF == "\n"
CR == "\r"
\* the escape character, U+001B
ESC == "\\x1b"

Producers == {"p1", "p2"}
NoHolder == "none"
LoopThread == "loop"
Threads == Producers \cup {LoopThread}
\* No string: what a variable that holds a call's argument holds between calls.
NoCall == <<"no call">>

\* on_autocomplete is not running.
NoTabCall == [buffer |-> NoCall, cursor_pos |-> 0, host |-> NoCall]

\* Texts of the concurrent study: one line, two lines, a blank line.
ConcTexts == { <<"a">>, <<"a", LF, "b">>, <<LF>> }

LogChars == {"a", LF, CR}

\* Every text over LogChars of at most MaxTextLen characters.
AllTexts == UNION { [1..n -> LogChars] : n \in 0..MaxTextLen }

Heights == 0..MaxHeight

\* characters the input line may grow to by typing
MaxInput == 1
\* entries the command history may grow to
MaxHistory == 2
\* largest scroll offset PageUp may reach
MaxOffset == 5
\* candidates the host may add to one completion
MaxCandidates == 2

\* Characters a key event may carry: a letter and a blank, ...
KeyChars == {"c", " "}
\* ... or a blank and a character of two bytes.
Utf8KeyChars == {" ", "U+E9"}

\* The one letter typed where only submission is studied.
SubmitChars == {"c"}

\* Lines for strip_ansi_codes: every text of at most MaxTextLen characters
\* over the escape character, '[', a digit and a letter.
StripChars == {ESC, "[", "1", "x"}
StripTexts == UNION { [1..n -> StripChars] : n \in 0..MaxTextLen }

\* tokens a line for parse_message_type is made of
MaxTokens == 2

\* Messages handed to the functions of the logger facade.
FacadeTexts == { <<"a">>, <<"a", LF, "b">> }

\* Strings the host offers as completion candidates.
CandidateStrings == { <<"c">>, <<" ", "c">> }
Utf8Candidates == { <<" ", "U+E9">> }

VARIABLES
    messages,     \* TerminalUI.messages: the VecDeque<String> behind the Mutex
    lock,         \* holder of the messages Mutex, or NoHolder
    ppc,          \* per producer: position inside MessageLogger::log
    ptext,        \* per producer: the `message` argument of its current/last call
    prest,        \* per producer: lines of message.lines() still to be pushed
    pcall,        \* per producer: number of log calls begun
    padded,       \* history: the lines its current/last call has pushed
    msgTags,      \* history: for each entry of messages, the call that pushed it
    appended,     \* history: every line ever pushed, in push order
    frame,        \* what the last terminal.draw rendered in the log region
    frameTags,    \* history: msgTags as the last draw saw them under the lock
    frameLines,   \* history: the lines of the log the last draw rendered
    input,            \* TerminalUI.input
    cursor_position,  \* TerminalUI.cursor_position, a byte offset into input
    scroll_offset,    \* TerminalUI.scroll_offset
    history,          \* TerminalUI.history
    history_index,    \* TerminalUI.history_index
    pc,               \* where the loop thread is inside run_loop
    result,           \* how TerminalUI::run_loop ended, or "running"
    cmd,              \* `raw_input`, the argument on_command was called with
    SHUTDOWN_SIGNAL,  \* repl_new.rs: the AtomicBool
    JAVA_INPUT_CALLBACK,    \* whether the OnceLock holds a callback
    JAVA_TAB_CALLBACK,      \* whether the OnceLock holds a callback
    COMPLETION_CANDIDATES,  \* the Vec<String> behind the Mutex
    java_input,       \* the string the input callback is running on, or NoCall
    tab_call,         \* the arguments on_autocomplete is running on, or NoTabCall
    key,              \* history: the key event read in this turn of the loop
    on_command_result,  \* history: what on_command returned in this turn
    raw_mode,         \* the terminal: raw mode is enabled
    alternate_screen, \* the terminal: the alternate screen is entered
    cursor_visible,   \* the terminal: the cursor is shown
    GLOBAL_LOGGER,    \* logger_new.rs: the session whose log is bound, or Unbound
    other_messages,   \* the message log of another session's TerminalUI
    last_set,         \* history: the session of the latest set_logger call
    facade_call,      \* history: the latest call of a logger_new.rs function
    global_lock,      \* holder of the Mutex inside GLOBAL_LOGGER, or NoHolder
    candidates_lock,  \* holder of the COMPLETION_CANDIDATES Mutex, or NoHolder
    tpc               \* per thread: position inside a call of logger_new.rs
                      \* or api.rs made by the host's code on that thread

logVars == <<messages, lock, ppc, ptext, prest, pcall, padded, msgTags, appended>>

frameVars == <<frame, frameTags, frameLines>>

editorVars == <<input, cursor_position, scroll_offset, history, history_index>>

hostVars == <<SHUTDOWN_SIGNAL, JAVA_INPUT_CALLBACK, JAVA_TAB_CALLBACK,
              COMPLETION_CANDIDATES>>

callVars == <<cmd, java_input, tab_call>>

turnVars == <<key, on_command_result>>

termVars == <<raw_mode, alternate_screen, cursor_visible>>

facadeVars == <<GLOBAL_LOGGER, other_messages, last_set, facade_call>>

lockVars == <<global_lock, candidates_lock, tpc>>

sessionVars == <<termVars, facadeVars, lockVars>>

vars == <<logVars, frameVars, editorVars, hostVars, callVars, pc, result,
          turnVars, sessionVars>>

(***************************************************************************)
(* str::lines                                                              *)
(***************************************************************************)
\* str::split_inclusive('\n'): pieces that each end with their terminator.
RECURSIVE SplitInclusive(_, _)
SplitInclusive(s, cur) ==
    IF s = <<>> THEN (IF cur = <<>> THEN <<>> ELSE <<cur>>)
    ELSE IF Head(s) = LF
         THEN <<Append(cur, LF)>> \o SplitInclusive(Tail(s), <<>>)
         ELSE SplitInclusive(Tail(s), Append(cur, Head(s)))

StripSuffix(s, c) == SubSeq(s, 1, Len(s) - 1)

HasSuffix(s, c) == Len(s) > 0 /\ s[Len(s)] = c

\* The map of str::lines: strip one "\n", and then one "\r" before it.
LinesMap(piece) ==
    IF ~HasSuffix(piece, LF) THEN piece
    ELSE LET l == StripSuffix(piece, LF)
         IN  IF HasSuffix(l, CR) THEN StripSuffix(l, CR) ELSE l

Lines(message) ==
    LET pieces == SplitInclusive(message, <<>>)
    IN  [i \in 1..Len(pieces) |-> LinesMap(pieces[i])]

(***************************************************************************)
(* MessageLogger::log                                                      *)
(***************************************************************************)
\* Mutant of EvictFront: the capacity test is off by one.
EvictFront_OffByOne(msgs) == IF Len(msgs) > MAX_MESSAGES THEN Tail(msgs) ELSE msgs

\* `if msgs.len() >= MAX_MESSAGES { msgs.pop_front(); }`
EvictFront(msgs) == IF Len(msgs) >= MAX_MESSAGES THEN Tail(msgs) ELSE msgs

\* One turn of the loop body / of the tail: evict when full, then push_back.
PushLine(msgs, line) == Append(EvictFront(msgs), line)

\* `message.is_empty() || message == "\n"`
IsEmptyMessage(message) == message = <<>> \/ message = <<LF>>

\* Everything one call pushes, in order: the lines, then the extra empty line.
Pushes(message) ==
    Lines(message) \o (IF IsEmptyMessage(message) THEN << <<>> >> ELSE <<>>)

RECURSIVE PushAll(_, _)
PushAll(msgs, lines) ==
    IF lines = <<>> THEN msgs
    ELSE PushAll(PushLine(msgs, Head(lines)), Tail(lines))

\* A whole call of MessageLogger::log on a free lock.
LogAll(msgs, message) == PushAll(msgs, Pushes(message))

\* Mutant of CanLock: the log is shared without mutual exclusion.
CanLock_NoMutex(t) == TRUE

\* self.messages.lock(): the Mutex admits a thread only when nobody holds it.
CanLock(t) == lock = NoHolder

Tag(p, idx, total) == [by |-> p, call |-> pcall[p], idx |-> idx, total |-> total]

\* `let mut msgs = self.messages.lock().unwrap();` at the start of a call:
\* what it does to the log and to the caller's position.
LogLockStep(p, message, maxCalls) ==
    /\ ppc[p] = "idle"
    /\ pcall[p] < maxCalls
    /\ CanLock(p)
    /\ lock' = p
    /\ ppc' = [ppc EXCEPT ![p] = "lines"]
    /\ ptext' = [ptext EXCEPT ![p] = message]
    /\ prest' = [prest EXCEPT ![p] = Lines(message)]
    /\ pcall' = [pcall EXCEPT ![p] = @ + 1]
    /\ padded' = [padded EXCEPT ![p] = <<>>]
    /\ UNCHANGED <<messages, msgTags, appended>>

\* A call of MessageLogger::log made on the logger itself.
LogLock(p, message, maxCalls) ==
    /\ LogLockStep(p, message, maxCalls)
    /\ UNCHANGED <<frameVars, sessionVars, editorVars, hostVars, callVars, pc, result>>
    /\ UNCHANGED turnVars

PushBy(p, line) ==
    /\ messages' = PushLine(messages, line)
    /\ msgTags' = PushLine(msgTags,
                           Tag(p, Len(padded[p]) + 1, Len(Pushes(ptext[p]))))
    /\ appended' = Append(appended, line)
    /\ padded' = [padded EXCEPT ![p] = Append(@, line)]

\* One iteration of `for line in message.lines()`.
LogLine(p) ==
    /\ ppc[p] = "lines"
    /\ prest[p] # <<>>
    /\ PushBy(p, Head(prest[p]))
    /\ prest' = [prest EXCEPT ![p] = Tail(@)]
    /\ UNCHANGED <<lock, ppc, ptext, pcall>>
    /\ UNCHANGED <<frameVars, sessionVars, editorVars, hostVars, callVars, pc, result>>
    /\ UNCHANGED turnVars

\* The loop is over: the empty-message test; a failed test ends the call.
LogTail(p) ==
    /\ ppc[p] = "lines"
    /\ prest[p] = <<>>
    /\ IF IsEmptyMessage(ptext[p])
       THEN /\ PushBy(p, <<>>)
            /\ ppc' = [ppc EXCEPT ![p] = "unlock"]
            /\ UNCHANGED lock
       ELSE /\ ppc' = [ppc EXCEPT ![p] = "idle"]
            /\ lock' = NoHolder
            /\ UNCHANGED <<messages, msgTags, appended, padded>>
    /\ UNCHANGED <<ptext, prest, pcall>>
    /\ UNCHANGED <<frameVars, sessionVars, editorVars, hostVars, callVars, pc, result>>
    /\ UNCHANGED turnVars

\* The guard `msgs` is dropped when log returns.
LogUnlock(p) ==
    /\ ppc[p] = "unlock"
    /\ ppc' = [ppc EXCEPT ![p] = "idle"]
    /\ lock' = NoHolder
    /\ UNCHANGED <<messages, ptext, prest, pcall, padded, msgTags, appended>>
    /\ UNCHANGED <<frameVars, sessionVars, editorVars, hostVars, callVars, pc, result>>
    /\ UNCHANGED turnVars


(***************************************************************************)
(* strip_ansi_codes and parse_message_type                                 *)
(***************************************************************************)
AsciiAlphabetic ==
    {"a", "b", "c", "d", "e", "f", "g", "h", "i", "j", "k", "l", "m",
     "n", "o", "p", "q", "r", "s", "t", "u", "v", "w", "x", "y", "z",
     "A", "B", "C", "D", "E", "F", "G", "H", "I", "J", "K", "L", "M",
     "N", "O", "P", "Q", "R", "S", "T", "U", "V", "W", "X", "Y", "Z"}

\* The inner `while let Some(c) = chars.next()`: consume through the first
\* ASCII letter (or to the end of the string).
RECURSIVE SkipToAlphabetic(_)
SkipToAlphabetic(s) ==
    IF s = <<>> THEN <<>>
    ELSE IF Head(s) \in AsciiAlphabetic THEN Tail(s)
         ELSE SkipToAlphabetic(Tail(s))

\* strip_ansi_codes: after ESC the next character is always consumed by
\* `chars.next()`; only when it is '[' does the inner loop run.
RECURSIVE strip_ansi_codes(_)
strip_ansi_codes(s) ==
    IF s = <<>> THEN <<>>
    ELSE IF Head(s) = ESC
         THEN IF Tail(s) = <<>> THEN <<>>
              ELSE IF Head(Tail(s)) = "["
                   THEN strip_ansi_codes(SkipToAlphabetic(Tail(Tail(s))))
                   ELSE strip_ansi_codes(Tail(Tail(s)))
         ELSE <<Head(s)>> \o strip_ansi_codes(Tail(s))

StartsWith(s, pre) == Len(s) >= Len(pre) /\ SubSeq(s, 1, Len(pre)) = pre

\* str::trim_start_matches: removes the prefix as often as it repeats.
RECURSIVE TrimStartMatches(_, _)
TrimStartMatches(s, pre) ==
    IF StartsWith(s, pre) THEN TrimStartMatches(SubSeq(s, Len(pre) + 1, Len(s)), pre)
    ELSE s

RustTag(i) == <<"[", "R", "U", "S", "T">> \o <<ToString(i)>> \o <<"]">>

RustColor(i) ==
    CASE i = 1 -> "Rgb(204,85,0)"
      [] i = 2 -> "Rgb(255,102,0)"
      [] i = 3 -> "Rgb(255,136,0)"
      [] i = 4 -> "Rgb(204,102,0)"
      [] i = 5 -> "Rgb(170,85,0)"
      [] i = 6 -> "Rgb(136,68,0)"
      [] i = 7 -> "Rgb(119,51,0)"

\* The prefixes of the other rules, in the order of the if-chain.  The
\* glyphs are single characters, named by their code points.
PrefixRules == <<
    [color |-> "Red",         prefixes |-> {<<"[", "E", "R", "R", "O", "R", "]">>, <<"U+2717">>}],
    [color |-> "Green",       prefixes |-> {<<"[", "U+2713", "]">>, <<"[", "S", "U", "C", "C", "E", "S", "S", "]">>}],
    [color |-> "Cyan",        prefixes |-> {<<"[", "I", "N", "F", "O", "]">>, <<"U+2139">>}],
    [color |-> "Yellow",      prefixes |-> {<<"[", "W", "A", "R", "N", "I", "N", "G", "]">>, <<"U+26A0">>}],
    [color |-> "Magenta",     prefixes |-> {<<"[", "D", "E", "B", "U", "G", "]">>}],
    [color |-> "LightBlue",   prefixes |-> {<<"U", "s", "e", "r", "n", "a", "m", "e", ":">>, <<"U", "U", "I", "D", ":">>}],
    [color |-> "LightGreen",  prefixes |-> {<<"C", "o", "n", "n", "e", "c", "t", "i", "n", "g">>, <<"S", "t", "a", "r", "t", "i", "n", "g">>}],
    [color |-> "LightYellow", prefixes |-> {<<"W", "a", "i", "t", "i", "n", "g">>, <<"L", "o", "a", "d", "i", "n", "g">>}] >>

MatchesRule(msg, r) == \E pre \in r.prefixes : StartsWith(msg, pre)

parse_message_type(msg) ==
    IF \E i \in 1..7 : StartsWith(msg, RustTag(i))
    THEN LET i == CHOOSE j \in 1..7 : StartsWith(msg, RustTag(j))
         IN  [text |-> TrimStartMatches(msg, RustTag(i)), color |-> RustColor(i)]
    ELSE IF \E k \in 1..Len(PrefixRules) : MatchesRule(msg, PrefixRules[k])
         THEN LET k == CHOOSE j \in 1..Len(PrefixRules) :
                           /\ MatchesRule(msg, PrefixRules[j])
                           /\ \A h \in 1..(j - 1) : ~MatchesRule(msg, PrefixRules[h])
              IN  [text |-> msg, color |-> PrefixRules[k].color]
         ELSE [text |-> msg, color |-> "White"]

(***************************************************************************)
(* Key events and results of on_command                                    *)
(***************************************************************************)
\* A KeyEvent: its code, the character of a KeyCode::Char, and whether its
\* modifiers contain KeyModifiers::CONTROL.
Key(code) == [code |-> code, char |-> "", ctrl |-> FALSE]

CharKey(c, ctrl) == [code |-> "Char", char |-> c, ctrl |-> ctrl]

NoKey == Key("none")

\* Key codes that no arm of handle_key names.
OtherKeyCodes == {"Delete", "Esc"}

\* event::read() returned Event::Key(k).
ReadKey(k) ==
    /\ key' = k
    /\ UNCHANGED on_command_result

\* The results of on_command: Result<bool, String>.
OkTrue == "Ok(true)"
OkFalse == "Ok(false)"
Err == "Err"
NoResult == "none"
CommandResults == {OkTrue, OkFalse, Err}

(***************************************************************************)
(* TerminalUI::draw, the log region                                        *)
(***************************************************************************)
Min(a, b) == IF a <= b THEN a ELSE b

\* the step of PageUp and PageDown
ScrollStep == 5

\* usize::saturating_sub
SaturatingSub(a, b) == IF a >= b THEN a - b ELSE 0

\* chunks[0].height.saturating_sub(2): the rows inside the border.
AvailableHeight(height) == SaturatingSub(height, 2)

MaxScroll(total, avail) == IF total > avail THEN total - avail ELSE 0

ClampedScroll(total, avail, offset) == Min(offset, MaxScroll(total, avail))

StartIndex(total, avail, offset) ==
    IF total > avail THEN total - avail - ClampedScroll(total, avail, offset) ELSE 0

\* `.iter().skip(start_index).take(available_height)`
Window(seq, start, avail) ==
    SubSeq(seq, start + 1, Min(Len(seq), start + avail))

\* The lines of `msgs` that fall into the log region.
VisibleLines(msgs, height, offset) ==
    LET avail == AvailableHeight(height)
    IN  Window(msgs, StartIndex(Len(msgs), avail, offset), avail)

\* Items and title of the log region for a log `msgs` seen under the lock.
RenderLog(msgs, height, offset) ==
    LET avail == AvailableHeight(height)
        total == Len(msgs)
        win   == VisibleLines(msgs, height, offset)
    IN  [items  |-> [i \in 1..Len(win) |-> parse_message_type(strip_ansi_codes(win[i]))],
         scroll |-> ClampedScroll(total, avail, offset)]


\* terminal.draw(|f| self.draw(f)): the frame is built from the log as it is
\* while the loop thread holds the lock; `height` is chunks[0].height.  The
\* frame sets a cursor position, so the terminal shows the cursor.  A new
\* turn of the loop begins: no key read yet.
Draw ==
    /\ pc = "draw"
    /\ CanLock(LoopThread)
    /\ \E height \in Heights :
          /\ frame' = RenderLog(messages, height, scroll_offset)
          /\ frameLines' = VisibleLines(messages, height, scroll_offset)
    /\ frameTags' = msgTags
    /\ cursor_visible' = TRUE
    /\ key' = NoKey
    /\ on_command_result' = NoResult
    /\ pc' = "poll"
    /\ UNCHANGED <<logVars, editorVars, hostVars, callVars, result>>
    /\ UNCHANGED <<raw_mode, alternate_screen, facadeVars, lockVars>>

\* event::poll timed out after 50 ms, or the event read was not a key.
PollNoKey ==
    /\ pc = "poll"
    /\ pc' = "draw"
    /\ UNCHANGED <<logVars, frameVars, sessionVars, editorVars, hostVars, callVars, result>>
    /\ UNCHANGED turnVars

(***************************************************************************)
(* Strings: byte offsets and trimming                                      *)
(***************************************************************************)
\* char::len_utf8
Utf8Len(c) == IF c = "U+E9" THEN 2 ELSE 1

\* String::len, in bytes
RECURSIVE StrLen(_)
StrLen(s) == IF s = <<>> THEN 0 ELSE Utf8Len(Head(s)) + StrLen(Tail(s))

\* str::is_char_boundary
IsCharBoundary(s, idx) == \E k \in 0..Len(s) : StrLen(SubSeq(s, 1, k)) = idx

\* The number of characters before byte offset idx, a character boundary.
CharsBefore(s, idx) == CHOOSE k \in 0..Len(s) : StrLen(SubSeq(s, 1, k)) = idx

\* String::insert(idx, c), which asserts is_char_boundary(idx).
StrInsert(s, idx, c) ==
    LET k == CharsBefore(s, idx)
    IN  SubSeq(s, 1, k) \o <<c>> \o SubSeq(s, k + 1, Len(s))

\* String::remove(idx) succeeds when idx is the start of a character.
CanRemove(s, idx) == IsCharBoundary(s, idx) /\ idx < StrLen(s)

StrRemove(s, idx) ==
    LET k == CharsBefore(s, idx)
    IN  SubSeq(s, 1, k) \o SubSeq(s, k + 2, Len(s))

\* char::is_whitespace, on the characters of the model
IsWhitespace(c) == c \in {" ", LF, CR, "\t"}

RECURSIVE TrimStart(_)
TrimStart(s) ==
    IF s # <<>> /\ IsWhitespace(Head(s)) THEN TrimStart(Tail(s)) ELSE s

RECURSIVE TrimEnd(_)
TrimEnd(s) ==
    IF s # <<>> /\ IsWhitespace(s[Len(s)]) THEN TrimEnd(SubSeq(s, 1, Len(s) - 1))
    ELSE s

\* str::trim
Trim(s) == TrimEnd(TrimStart(s))


(***************************************************************************)
(* A whole call of MessageLogger::log by a thread that is not interleaved  *)
(* with (the loop thread's own facade calls).                              *)
(***************************************************************************)
LogCall(t, message) ==
    /\ CanLock(t)
    /\ pcall[t] < MaxCalls
    /\ messages' = LogAll(messages, message)
    /\ msgTags' = PushAll(msgTags,
                          [i \in 1..Len(Pushes(message)) |->
                              [by |-> t, call |-> pcall[t] + 1, idx |-> i,
                               total |-> Len(Pushes(message))]])
    /\ appended' = appended \o Pushes(message)
    /\ pcall' = [pcall EXCEPT ![t] = @ + 1]
    /\ ptext' = [ptext EXCEPT ![t] = message]
    /\ padded' = [padded EXCEPT ![t] = Pushes(message)]
    /\ UNCHANGED <<lock, ppc, prest>>

\* MessageLogger::error: format!("[ERROR] {}", message)
ErrorFormat(message) == <<"[", "E", "R", "R", "O", "R", "]", " ">> \o message

(***************************************************************************)
(* The logger facade (logger_new.rs)                                       *)
(***************************************************************************)
\* GLOBAL_LOGGER holds no MessageLogger.
Unbound == "unbound"

\* Sessions: "ui" is the session of this model's TerminalUI, whose log is
\* `messages`; "other" is another session, whose log is other_messages.
Sessions == {"ui", "other"}

FacadeKinds == {"log", "info", "error", "success", "warning", "debug"}

\* What each function of the facade hands to MessageLogger::log.
FacadeFormat(kind, message) ==
    CASE kind = "log"     -> message
      [] kind = "info"    -> <<"[", "I", "N", "F", "O", "]", " ">> \o message
      [] kind = "error"   -> ErrorFormat(message)
      [] kind = "success" -> <<"[", "S", "U", "C", "C", "E", "S", "S", "]", " ">> \o message
      [] kind = "warning" -> <<"[", "W", "A", "R", "N", "I", "N", "G", "]", " ">> \o message
      [] kind = "debug"   -> <<"[", "D", "E", "B", "U", "G", "]", " ">> \o message

\* Mutant of BindLogger: the first binding stays, as in a OnceLock.
BindLogger_FirstWins(global, session) ==
    IF global = Unbound THEN session ELSE global

\* `*global = Some(logger)`
BindLogger(global, session) == session

\* set_logger(logger), with the MessageLogger of a session's TerminalUI.
set_logger(session) ==
    /\ GLOBAL_LOGGER' = BindLogger(GLOBAL_LOGGER, session)
    /\ last_set' = session
    /\ UNCHANGED <<logVars, frameVars, editorVars, hostVars, callVars, pc, result>>
    /\ UNCHANGED <<turnVars, termVars, lockVars, other_messages, facade_call>>

\* with_logger(|l| l.log(text)): nothing without a bound logger, else a
\* whole MessageLogger::log on the bound session's log.
with_logger(t, text) ==
    IF GLOBAL_LOGGER = Unbound
    THEN UNCHANGED <<logVars, other_messages>>
    ELSE IF GLOBAL_LOGGER = "ui"
         THEN LogCall(t, text) /\ UNCHANGED other_messages
         ELSE /\ other_messages' = PushAll(other_messages, Pushes(text))
              /\ UNCHANGED logVars

\* One call of log, info, error, success, warning or debug by thread t.
FacadeCall(t, kind, message) ==
    /\ facade_call.n < MaxCalls
    /\ facade_call' = [n |-> facade_call.n + 1, kind |-> kind, message |-> message]
    /\ with_logger(t, FacadeFormat(kind, message))
    /\ UNCHANGED <<GLOBAL_LOGGER, last_set>>

\* A thread of the host calls the facade while the loop does something else.
HostFacadeCall(t, kind, message) ==
    /\ FacadeCall(t, kind, message)
    /\ UNCHANGED <<frameVars, editorVars, hostVars, callVars, pc, result>>
    /\ UNCHANGED <<turnVars, termVars, lockVars>>

(***************************************************************************)
(* The three locks: calls of logger_new.rs and api.rs step by step         *)
(***************************************************************************)
\* facade calls per thread where the locks are studied
LockCalls == 1

\* The message and the candidate of the calls the host's code makes.  The
\* candidate is blank, so that a completed line adds nothing to the history.
LockTexts == { <<"a">> }
LockCandidates == { <<" ">> }

\* The threads whose calls are followed lock by lock: a producer thread and
\* the loop thread.
LockThreads == {"p1", LoopThread}

\* `lock.lock()` on the Mutex inside GLOBAL_LOGGER.
CanLockGlobal(t) == global_lock = NoHolder

\* `COMPLETION_CANDIDATES.lock()`
CanLockCandidates(t) == candidates_lock = NoHolder

\* Code of the host runs on thread t: on a producer thread at any time, on
\* the loop thread while the input callback or the tab callback runs.
HostRuns(t) ==
    IF t = LoopThread
    THEN pc = "callback" \/ (pc = "on_autocomplete" /\ tab_call.host # NoCall)
    ELSE TRUE

\* What the calls of this section leave alone besides the locks.
LoopUnchanged ==
    UNCHANGED <<frameVars, termVars, editorVars, hostVars, callVars, pc, result,
                turnVars, other_messages, facade_call>>

\* terminal_log_info -> logger::info -> with_logger, up to `lock.lock()`.
FacadeEnter(t) ==
    /\ HostRuns(t)
    /\ tpc[t] = "idle"
    /\ pcall[t] < LockCalls
    /\ tpc' = [tpc EXCEPT ![t] = "with_logger"]
    /\ UNCHANGED <<global_lock, candidates_lock, GLOBAL_LOGGER, last_set>>
    /\ UNCHANGED logVars
    /\ LoopUnchanged

\* with_logger: `if let Ok(global) = lock.lock()`, then
\* `if let Some(logger) = global.as_ref()`: without a logger the guard is
\* dropped at once, with one it is held while f(logger) runs.
WithLoggerLock(t) ==
    /\ tpc[t] = "with_logger"
    /\ CanLockGlobal(t)
    /\ IF GLOBAL_LOGGER = Unbound
       THEN /\ tpc' = [tpc EXCEPT ![t] = "idle"]
            /\ UNCHANGED global_lock
       ELSE /\ tpc' = [tpc EXCEPT ![t] = "f"]
            /\ global_lock' = t
    /\ UNCHANGED <<candidates_lock, GLOBAL_LOGGER, last_set>>
    /\ UNCHANGED logVars
    /\ LoopUnchanged

\* f(logger) = l.info(message): MessageLogger::log takes the lock of the
\* log while the thread holds the lock of GLOBAL_LOGGER.
FacadeLogLock(t, message) ==
    /\ tpc[t] = "f"
    /\ LogLockStep(t, FacadeFormat("info", message), LockCalls)
    /\ tpc' = [tpc EXCEPT ![t] = "in_log"]
    /\ UNCHANGED <<global_lock, candidates_lock, GLOBAL_LOGGER, last_set>>
    /\ LoopUnchanged

\* f(logger) has returned: with_logger drops the guard `global`.
WithLoggerUnlock(t) ==
    /\ tpc[t] = "in_log"
    /\ ppc[t] = "idle"
    /\ global_lock' = NoHolder
    /\ tpc' = [tpc EXCEPT ![t] = "idle"]
    /\ UNCHANGED <<candidates_lock, GLOBAL_LOGGER, last_set>>
    /\ UNCHANGED logVars
    /\ LoopUnchanged

\* set_logger up to `lock.lock()`: a thread other than the loop's binds the
\* logger of this session again.
SetLoggerEnter(t) ==
    /\ t \in Producers
    /\ tpc[t] = "idle"
    /\ tpc' = [tpc EXCEPT ![t] = "set_logger"]
    /\ UNCHANGED <<global_lock, candidates_lock, GLOBAL_LOGGER, last_set>>
    /\ UNCHANGED logVars
    /\ LoopUnchanged

\* `let mut global = lock.lock().unwrap(); *global = Some(logger);` and the
\* guard is dropped.
SetLoggerLock(t) ==
    /\ tpc[t] = "set_logger"
    /\ CanLockGlobal(t)
    /\ GLOBAL_LOGGER' = BindLogger(GLOBAL_LOGGER, "ui")
    /\ last_set' = "ui"
    /\ tpc' = [tpc EXCEPT ![t] = "idle"]
    /\ UNCHANGED <<global_lock, candidates_lock>>
    /\ UNCHANGED logVars
    /\ LoopUnchanged

\* Threads inside terminal_add_candidate that have not pushed yet.
Adding == { t \in LockThreads : tpc[t] \in {"add_candidate", "push"} }

\* terminal_add_candidate up to `COMPLETION_CANDIDATES.lock()`.
AddCandidateEnter(t) ==
    /\ HostRuns(t)
    /\ tpc[t] = "idle"
    /\ Len(COMPLETION_CANDIDATES) + Cardinality(Adding) < MaxCandidates
    /\ tpc' = [tpc EXCEPT ![t] = "add_candidate"]
    /\ UNCHANGED <<global_lock, candidates_lock, GLOBAL_LOGGER, last_set>>
    /\ UNCHANGED logVars
    /\ LoopUnchanged

\* `if let Ok(mut list) = COMPLETION_CANDIDATES.lock()`
AddCandidateLock(t) ==
    /\ tpc[t] = "add_candidate"
    /\ CanLockCandidates(t)
    /\ candidates_lock' = t
    /\ tpc' = [tpc EXCEPT ![t] = "push"]
    /\ UNCHANGED <<global_lock, GLOBAL_LOGGER, last_set>>
    /\ UNCHANGED logVars
    /\ LoopUnchanged

\* `list.push(c_str.to_string());` and the guard is dropped.
AddCandidatePush(t, candidate) ==
    /\ tpc[t] = "push"
    /\ COMPLETION_CANDIDATES' = Append(COMPLETION_CANDIDATES, candidate)
    /\ candidates_lock' = NoHolder
    /\ tpc' = [tpc EXCEPT ![t] = "idle"]
    /\ UNCHANGED <<global_lock, GLOBAL_LOGGER, last_set>>
    /\ UNCHANGED logVars
    /\ UNCHANGED <<frameVars, termVars, editorVars, SHUTDOWN_SIGNAL,
                   JAVA_INPUT_CALLBACK, JAVA_TAB_CALLBACK, callVars, pc, result,
                   turnVars, other_messages, facade_call>>

\* Mutant of AfterClear: the completion closure keeps its first guard.
AfterClear_Held(t) == t

\* `if let Ok(mut candidates) = COMPLETION_CANDIDATES.lock() {
\*      candidates.clear(); }`: the guard is dropped at the end of the
\* `if let`, before the tab callback is called.
AfterClear(t) == NoHolder

BackendDisconnected == <<"B", "a", "c", "k", "e", "n", "d", " ", "d", "i", "s", "c", "o", "n", "n", "e", "c", "t", "e", "d", ".">>

(***************************************************************************)
(* TerminalUI::handle_key                                                  *)
(***************************************************************************)
\* KeyAction::Continue: back to the top of the loop.
Continue ==
    /\ pc' = "draw"
    /\ UNCHANGED result

\* KeyAction::Exit: run_loop returns Ok(()).
Exit ==
    /\ pc' = "returned"
    /\ result' = "Ok"

\* A panic unwinds out of run_loop: nothing of the arm has been done.
Panic ==
    /\ pc' = "returned"
    /\ result' = "panic"

\* Mutant of EnterResult: only Ok(false) continues.
EnterResult_ErrExits(res) ==
    /\ on_command_result' = res
    /\ UNCHANGED key
    /\ IF res = OkFalse THEN Continue ELSE Exit

\* `match on_command(cmd).await { Ok(true) => KeyAction::Exit,
\*                                _ => KeyAction::Continue }`
EnterResult(res) ==
    /\ on_command_result' = res
    /\ UNCHANGED key
    /\ IF res = OkTrue THEN Exit ELSE Continue

\* Mutant of IsCtrlC: the first arm never matches.
IsCtrlC_Never(k) == FALSE

\* `KeyCode::Char('c') if key.modifiers.contains(KeyModifiers::CONTROL)`
IsCtrlC(k) == k.code = "Char" /\ k.char = "c" /\ k.ctrl

CtrlC == CharKey("c", TRUE)

\* The first arm of the match: KeyAction::Exit.
KeyCtrlC ==
    /\ pc = "poll"
    /\ IsCtrlC(CtrlC)
    /\ ReadKey(CtrlC)
    /\ Exit
    /\ UNCHANGED <<logVars, frameVars, sessionVars, editorVars, hostVars, callVars>>

\* Mutant of HistoryEntry: the trimmed line is remembered.
HistoryEntry_Trimmed(c) == Trim(c)

\* The history entry Enter pushes: `cmd.clone()`, the raw buffer.
HistoryEntry(c) == c

\* Mutant of IsBlank: only the empty buffer counts as blank.
IsBlank_NoTrim(c) == c = <<>>

\* `cmd.trim().is_empty()`
IsBlank(c) == Trim(c) = <<>>

\* KeyCode::Enter up to the call on_command(cmd); the closure's body runs in
\* OnCommand and Dispatch.
KeyEnter ==
    /\ pc = "poll"
    /\ IsBlank(input) \/ Len(history) < MaxHistory
    /\ LET hist == IF ~IsBlank(input) THEN Append(history, HistoryEntry(input))
                   ELSE history
       IN  /\ history' = hist
           /\ history_index' = Len(hist)
    /\ input' = <<>>
    /\ cursor_position' = 0
    /\ scroll_offset' = 0
    /\ cmd' = input
    /\ pc' = "on_command"
    /\ UNCHANGED <<logVars, frameVars, sessionVars, hostVars, java_input, tab_call, result>>
    /\ ReadKey(Key("Enter"))

\* `callback(raw_input.trim())`
CallbackArg(raw_input) == Trim(raw_input)

\* Mutant of ShutdownObserved: the closure never polls the flag.
ShutdownObserved_Never == FALSE

\* `if SHUTDOWN_SIGNAL.load(Ordering::Relaxed)`: the value of the flag at the
\* moment of the load.
ShutdownObserved == SHUTDOWN_SIGNAL

\* The command closure of Terminal::run starts: it polls the shutdown flag and
\* returns Ok(true), which handle_key turns into KeyAction::Exit, or goes on.
OnCommand ==
    /\ pc = "on_command"
    /\ IF ShutdownObserved
       THEN /\ EnterResult(OkTrue)
            /\ cmd' = NoCall
       ELSE /\ pc' = "dispatch"
            /\ UNCHANGED <<cmd, result, turnVars>>
    /\ UNCHANGED <<logVars, frameVars, sessionVars, editorVars, hostVars, java_input, tab_call>>

\* The closure goes on: it enters the host's input callback, or, with none
\* registered, logs an error through the facade and yields Ok(false).
Dispatch ==
    /\ pc = "dispatch"
    /\ IF JAVA_INPUT_CALLBACK
       THEN /\ java_input' = CallbackArg(cmd)
            /\ pc' = "callback"
            /\ UNCHANGED <<logVars, facadeVars, cmd, result, turnVars>>
       ELSE /\ FacadeCall(LoopThread, "error", BackendDisconnected)
            /\ EnterResult(OkFalse)
            /\ cmd' = NoCall
            /\ UNCHANGED java_input
    /\ UNCHANGED <<frameVars, termVars, lockVars, editorVars, hostVars, tab_call>>

\* The host's input callback returns (with every call it made); the closure
\* yields Ok(false).
CallbackReturn ==
    /\ pc = "callback"
    /\ tpc[LoopThread] = "idle"
    /\ java_input' = NoCall
    /\ cmd' = NoCall
    /\ EnterResult(OkFalse)
    /\ UNCHANGED <<logVars, frameVars, sessionVars, editorVars, hostVars, tab_call>>

\* on_command as TerminalUI::run sees it: some closure, which returns some
\* Result<bool, String>.
CommandReturns(res) ==
    /\ pc = "on_command"
    /\ EnterResult(res)
    /\ cmd' = NoCall
    /\ UNCHANGED <<logVars, frameVars, sessionVars, editorVars, hostVars,
                   java_input, tab_call>>

\* The fields of TerminalUI the Up and Down arms read and write.
Editor ==
    [input |-> input, cursor_position |-> cursor_position,
     history |-> history, history_index |-> history_index]

SetEditor(ed) ==
    /\ input' = ed.input
    /\ cursor_position' = ed.cursor_position
    /\ history' = ed.history
    /\ history_index' = ed.history_index

\* self.history[i], a Vec indexed from 0
HistoryAt(ed, i) == ed.history[i + 1]

\* Mutant of HistoryUp: the entry at the old index is loaded.
HistoryUp_OldIndex(ed) ==
    IF ed.history_index > 0
    THEN LET i == ed.history_index - 1
             j == IF ed.history_index < Len(ed.history) THEN ed.history_index ELSE i
         IN  [ed EXCEPT !.history_index = i,
                        !.input = HistoryAt(ed, j),
                        !.cursor_position = StrLen(HistoryAt(ed, j))]
    ELSE ed

\* The KeyCode::Up arm on the editor fields.
HistoryUp(ed) ==
    IF ed.history_index > 0
    THEN LET i == ed.history_index - 1
         IN  [ed EXCEPT !.history_index = i,
                        !.input = HistoryAt(ed, i),
                        !.cursor_position = StrLen(HistoryAt(ed, i))]
    ELSE ed

\* Mutant of HistoryDown: past the newest entry the buffer is not cleared.
HistoryDown_NoClear(ed) ==
    IF ed.history_index < Len(ed.history)
    THEN LET i   == ed.history_index + 1
             inp == IF i < Len(ed.history) THEN HistoryAt(ed, i) ELSE ed.input
         IN  [ed EXCEPT !.history_index = i,
                        !.input = inp,
                        !.cursor_position = StrLen(inp)]
    ELSE ed

\* The KeyCode::Down arm on the editor fields.
HistoryDown(ed) ==
    IF ed.history_index < Len(ed.history)
    THEN LET i   == ed.history_index + 1
             inp == IF i < Len(ed.history) THEN HistoryAt(ed, i) ELSE <<>>
         IN  [ed EXCEPT !.history_index = i,
                        !.input = inp,
                        !.cursor_position = StrLen(inp)]
    ELSE ed

KeyUp ==
    /\ pc = "poll"
    /\ SetEditor(HistoryUp(Editor))
    /\ Continue
    /\ UNCHANGED <<logVars, frameVars, sessionVars, scroll_offset, hostVars, callVars>>
    /\ ReadKey(Key("Up"))

KeyDown ==
    /\ pc = "poll"
    /\ SetEditor(HistoryDown(Editor))
    /\ Continue
    /\ UNCHANGED <<logVars, frameVars, sessionVars, scroll_offset, hostVars, callVars>>
    /\ ReadKey(Key("Down"))

\* KeyCode::Char(c): every character event that is not Ctrl-C, with or
\* without modifiers.
KeyChar(c, ctrl) ==
    /\ pc = "poll"
    /\ ~IsCtrlC(CharKey(c, ctrl))
    /\ Len(input) < MaxInput
    /\ IF IsCharBoundary(input, cursor_position)
       THEN /\ input' = StrInsert(input, cursor_position, c)
            /\ cursor_position' = cursor_position + 1
            /\ Continue
       ELSE /\ Panic
            /\ UNCHANGED <<input, cursor_position>>
    /\ UNCHANGED <<logVars, frameVars, sessionVars, scroll_offset, history, history_index,
                   hostVars, callVars>>
    /\ ReadKey(CharKey(c, ctrl))

KeyBackspace ==
    /\ pc = "poll"
    /\ IF cursor_position > 0
       THEN IF CanRemove(input, cursor_position - 1)
            THEN /\ input' = StrRemove(input, cursor_position - 1)
                 /\ cursor_position' = cursor_position - 1
                 /\ Continue
            ELSE /\ Panic
                 /\ UNCHANGED <<input, cursor_position>>
       ELSE /\ Continue
            /\ UNCHANGED <<input, cursor_position>>
    /\ UNCHANGED <<logVars, frameVars, sessionVars, scroll_offset, history, history_index,
                   hostVars, callVars>>
    /\ ReadKey(Key("Backspace"))

KeyLeft ==
    /\ pc = "poll"
    /\ cursor_position' = IF cursor_position > 0 THEN cursor_position - 1
                          ELSE cursor_position
    /\ Continue
    /\ UNCHANGED <<logVars, frameVars, sessionVars, input, scroll_offset, history, history_index,
                   hostVars, callVars>>
    /\ ReadKey(Key("Left"))

\* Mutant of MoveRight: the cursor moves without the bounds test.
MoveRight_Unchecked(pos, buffer) == pos + 1

\* `if self.cursor_position < self.input.len() { self.cursor_position += 1; }`
MoveRight(pos, buffer) == IF pos < StrLen(buffer) THEN pos + 1 ELSE pos

KeyRight ==
    /\ pc = "poll"
    /\ cursor_position' = MoveRight(cursor_position, input)
    /\ Continue
    /\ UNCHANGED <<logVars, frameVars, sessionVars, input, scroll_offset, history, history_index,
                   hostVars, callVars>>
    /\ ReadKey(Key("Right"))

\* KeyCode::Tab up to the call of the host's tab callback: the completion
\* closure has cleared the candidates and handed over current_buffer.
KeyTab ==
    /\ pc = "poll"
    /\ CanLockCandidates(LoopThread)
    /\ tab_call' = [buffer |-> input, cursor_pos |-> cursor_position,
                    host |-> IF JAVA_TAB_CALLBACK THEN input ELSE NoCall]
    /\ COMPLETION_CANDIDATES' = <<>>
    /\ candidates_lock' = AfterClear(LoopThread)
    /\ pc' = "on_autocomplete"
    /\ UNCHANGED <<logVars, frameVars, termVars, facadeVars, global_lock, tpc,
                   editorVars, SHUTDOWN_SIGNAL,
                   JAVA_INPUT_CALLBACK, JAVA_TAB_CALLBACK, cmd, java_input, result>>
    /\ ReadKey(Key("Tab"))

\* Mutant of ApplySuggestions: the last suggestion is taken.
ApplySuggestions_Last(suggestions, buffer) ==
    IF suggestions # <<>> THEN suggestions[Len(suggestions)] ELSE buffer

\* What Tab makes of the suggestions: `suggestions[0]`, if there is one.
ApplySuggestions(suggestions, buffer) ==
    IF suggestions # <<>> THEN suggestions[1] ELSE buffer

\* The tab callback has returned (with every call it made); the completion
\* closure locks the candidates again, returns a clone of them and the Tab
\* arm applies it.
TabReturn ==
    /\ pc = "on_autocomplete"
    /\ tpc[LoopThread] = "idle"
    /\ CanLockCandidates(LoopThread)
    /\ LET suggestions == COMPLETION_CANDIDATES
       IN  /\ input' = ApplySuggestions(suggestions, input)
           /\ cursor_position' = IF suggestions # <<>> THEN StrLen(input')
                                 ELSE cursor_position
    /\ tab_call' = NoTabCall
    /\ Continue
    /\ UNCHANGED <<logVars, frameVars, sessionVars, scroll_offset, history, history_index,
                   hostVars, cmd, java_input>>
    /\ UNCHANGED turnVars

KeyPageUp ==
    /\ pc = "poll"
    /\ scroll_offset + ScrollStep <= MaxOffset
    /\ scroll_offset' = scroll_offset + ScrollStep
    /\ Continue
    /\ UNCHANGED <<logVars, frameVars, sessionVars, input, cursor_position, history,
                   history_index, hostVars, callVars>>
    /\ ReadKey(Key("PageUp"))

KeyPageDown ==
    /\ pc = "poll"
    /\ scroll_offset' = SaturatingSub(scroll_offset, ScrollStep)
    /\ Continue
    /\ UNCHANGED <<logVars, frameVars, sessionVars, input, cursor_position, history,
                   history_index, hostVars, callVars>>
    /\ ReadKey(Key("PageDown"))

KeyHome ==
    /\ pc = "poll"
    /\ cursor_position' = 0
    /\ Continue
    /\ UNCHANGED <<logVars, frameVars, sessionVars, input, scroll_offset, history, history_index,
                   hostVars, callVars>>
    /\ ReadKey(Key("Home"))

KeyEnd ==
    /\ pc = "poll"
    /\ cursor_position' = StrLen(input)
    /\ Continue
    /\ UNCHANGED <<logVars, frameVars, sessionVars, input, scroll_offset, history, history_index,
                   hostVars, callVars>>
    /\ ReadKey(Key("End"))

\* `_ => KeyAction::Continue`: every other key code.
KeyOther ==
    /\ pc = "poll"
    /\ \E code \in OtherKeyCodes : ReadKey(Key(code))
    /\ Continue
    /\ UNCHANGED <<logVars, frameVars, sessionVars, editorVars, hostVars, callVars>>

(***************************************************************************)
(* TerminalUI::run around run_loop, and the I/O errors of the loop         *)
(***************************************************************************)
\* `enable_raw_mode()?`: on an I/O error run returns it at once.
EnableRawMode ==
    /\ pc = "enable_raw_mode"
    /\ \E ok \in BOOLEAN :
          IF ok THEN /\ raw_mode' = TRUE
                     /\ pc' = "enter_alternate_screen"
                     /\ UNCHANGED result
                ELSE /\ pc' = "finished"
                     /\ result' = Err
                     /\ UNCHANGED raw_mode
    /\ UNCHANGED <<logVars, frameVars, editorVars, hostVars, callVars, turnVars>>
    /\ UNCHANGED <<alternate_screen, cursor_visible, facadeVars, lockVars>>

\* `execute!(stdout, EnterAlternateScreen)?`
EnterAlternateScreen ==
    /\ pc = "enter_alternate_screen"
    /\ \E ok \in BOOLEAN :
          IF ok THEN /\ alternate_screen' = TRUE
                     /\ pc' = "terminal_new"
                     /\ UNCHANGED result
                ELSE /\ pc' = "finished"
                     /\ result' = Err
                     /\ UNCHANGED alternate_screen
    /\ UNCHANGED <<logVars, frameVars, editorVars, hostVars, callVars, turnVars>>
    /\ UNCHANGED <<raw_mode, cursor_visible, facadeVars, lockVars>>

\* `Terminal::new(backend)?`, then `let cleanup = Cleanup;` and into run_loop.
TerminalNew ==
    /\ pc = "terminal_new"
    /\ \E ok \in BOOLEAN :
          IF ok THEN /\ pc' = "draw"
                     /\ UNCHANGED result
                ELSE /\ pc' = "finished"
                     /\ result' = Err
    /\ UNCHANGED <<logVars, frameVars, editorVars, hostVars, callVars, turnVars>>
    /\ UNCHANGED sessionVars

\* `terminal.draw(..)?` fails: run_loop returns the error.
DrawFails ==
    /\ pc = "draw"
    /\ pc' = "returned"
    /\ result' = Err
    /\ UNCHANGED <<logVars, frameVars, editorVars, hostVars, callVars, turnVars>>
    /\ UNCHANGED sessionVars

\* `event::poll(..)?` or `event::read()?` fails: run_loop returns the error.
PollFails ==
    /\ pc = "poll"
    /\ pc' = "returned"
    /\ result' = Err
    /\ UNCHANGED <<logVars, frameVars, editorVars, hostVars, callVars, turnVars>>
    /\ UNCHANGED sessionVars

\* run_loop is over.  Its result returned: drop(cleanup), disable_raw_mode,
\* LeaveAlternateScreen, show_cursor, and run returns the result.  A panic
\* unwinding: Cleanup::drop alone.
RunReturns ==
    /\ pc = "returned"
    /\ raw_mode' = FALSE
    /\ alternate_screen' = FALSE
    /\ cursor_visible' = IF result = "panic" THEN cursor_visible ELSE TRUE
    /\ pc' = "finished"
    /\ UNCHANGED <<logVars, frameVars, editorVars, hostVars, callVars, turnVars>>
    /\ UNCHANGED <<result, facadeVars, lockVars>>

(***************************************************************************)
(* The host's entry points (api.rs), called from any thread at any time    *)
(***************************************************************************)
terminal_close ==
    /\ SHUTDOWN_SIGNAL' = TRUE
    /\ UNCHANGED <<logVars, frameVars, sessionVars, editorVars, JAVA_INPUT_CALLBACK,
                   JAVA_TAB_CALLBACK, COMPLETION_CANDIDATES, callVars, pc, result>>
    /\ UNCHANGED turnVars

terminal_register_input_callback ==
    /\ JAVA_INPUT_CALLBACK' = TRUE
    /\ UNCHANGED <<logVars, frameVars, sessionVars, editorVars, SHUTDOWN_SIGNAL,
                   JAVA_TAB_CALLBACK, COMPLETION_CANDIDATES, callVars, pc, result>>
    /\ UNCHANGED turnVars

terminal_register_tab_callback ==
    /\ JAVA_TAB_CALLBACK' = TRUE
    /\ UNCHANGED <<logVars, frameVars, sessionVars, editorVars, SHUTDOWN_SIGNAL,
                   JAVA_INPUT_CALLBACK, COMPLETION_CANDIDATES, callVars, pc, result>>
    /\ UNCHANGED turnVars

terminal_add_candidate(candidate) ==
    /\ Len(COMPLETION_CANDIDATES) < MaxCandidates
    /\ CanLockCandidates("host")
    /\ COMPLETION_CANDIDATES' = Append(COMPLETION_CANDIDATES, candidate)
    /\ UNCHANGED <<logVars, frameVars, sessionVars, editorVars, SHUTDOWN_SIGNAL,
                   JAVA_INPUT_CALLBACK, JAVA_TAB_CALLBACK, callVars, pc, result>>
    /\ UNCHANGED turnVars

(***************************************************************************)
(* Specifications                                                          *)
(***************************************************************************)
\* TerminalUI::new() and the statics of repl_new.rs and logger_new.rs: the
\* host's callbacks registered or not, the facade bound to a session or not,
\* and TerminalUI::run either not begun or inside run_loop.
InitState(inputCallback, tabCallback, logger, started) ==
    /\ messages = <<>>
    /\ lock = NoHolder
    /\ ppc = [t \in Threads |-> "idle"]
    /\ ptext = [t \in Threads |-> <<>>]
    /\ prest = [t \in Threads |-> <<>>]
    /\ pcall = [t \in Threads |-> 0]
    /\ padded = [t \in Threads |-> <<>>]
    /\ msgTags = <<>>
    /\ appended = <<>>
    /\ frame = [items |-> <<>>, scroll |-> 0]
    /\ frameTags = <<>>
    /\ frameLines = <<>>
    /\ input = <<>>
    /\ cursor_position = 0
    /\ scroll_offset = 0
    /\ history = <<>>
    /\ history_index = 0
    /\ pc = IF started THEN "draw" ELSE "enable_raw_mode"
    /\ result = "running"
    /\ cmd = NoCall
    /\ SHUTDOWN_SIGNAL = FALSE
    /\ JAVA_INPUT_CALLBACK = inputCallback
    /\ JAVA_TAB_CALLBACK = tabCallback
    /\ COMPLETION_CANDIDATES = <<>>
    /\ java_input = NoCall
    /\ tab_call = NoTabCall
    /\ key = NoKey
    /\ on_command_result = NoResult
    /\ raw_mode = started
    /\ alternate_screen = started
    /\ cursor_visible = TRUE
    /\ GLOBAL_LOGGER = logger
    /\ other_messages = <<>>
    /\ last_set = logger
    /\ facade_call = [n |-> 0, kind |-> "log", message |-> <<>>]
    /\ global_lock = NoHolder
    /\ candidates_lock = NoHolder
    /\ tpc = [t \in Threads |-> "idle"]

\* The loop of a session whose Terminal::run has bound the facade to its log.
InitWith(inputCallback, tabCallback) ==
    InitState(inputCallback, tabCallback, "ui", TRUE)

\* Nothing registered yet.
Init == InitWith(FALSE, FALSE)

HandleKey(chars) ==
    \/ KeyCtrlC
    \/ KeyEnter
    \/ KeyUp
    \/ KeyDown
    \/ \E c \in chars, ctrl \in BOOLEAN : KeyChar(c, ctrl)
    \/ KeyBackspace
    \/ KeyLeft
    \/ KeyRight
    \/ KeyTab
    \/ KeyPageUp
    \/ KeyPageDown
    \/ KeyHome
    \/ KeyEnd
    \/ KeyOther

\* The host registered both callbacks before it started the terminal.
InitRegistered == InitWith(TRUE, TRUE)

\* The steps of the loop thread.
Loop(chars) ==
    \/ Draw
    \/ PollNoKey
    \/ HandleKey(chars)
    \/ OnCommand
    \/ Dispatch
    \/ CallbackReturn
    \/ TabReturn

\* The input editor under every key, with a host that answers completions.
NextEditor ==
    \/ Loop(KeyChars)
    \/ \E candidate \in CandidateStrings : terminal_add_candidate(candidate)

SpecEditor == InitRegistered /\ [][NextEditor]_vars

\* The same editor over characters of one and of two bytes.
NextUtf8 ==
    \/ Loop(Utf8KeyChars)
    \/ \E candidate \in Utf8Candidates : terminal_add_candidate(candidate)

SpecUtf8 == InitRegistered /\ [][NextUtf8]_vars

\* TerminalUI::run with any command closure, and completions without
\* candidates.
NextUi ==
    \/ Draw
    \/ PollNoKey
    \/ HandleKey(KeyChars)
    \/ \E res \in CommandResults : CommandReturns(res)
    \/ TabReturn

SpecUi == Init /\ [][NextUi]_vars

\* TerminalUI::run from its first line to its return, I/O errors included.
InitRun == InitState(TRUE, TRUE, "ui", FALSE)

NextRun ==
    \/ EnableRawMode
    \/ EnterAlternateScreen
    \/ TerminalNew
    \/ Loop(Utf8KeyChars)
    \/ DrawFails
    \/ PollFails
    \/ RunReturns

SpecRun == InitRun /\ [][NextRun]_vars

\* The logger facade from the start of the process: sessions bind their
\* logs, a thread of the host logs through the facade.
InitFacade == InitState(FALSE, FALSE, Unbound, FALSE)

NextFacade ==
    \/ \E session \in Sessions : set_logger(session)
    \/ \E kind \in FacadeKinds, message \in FacadeTexts :
          HostFacadeCall("p1", kind, message)

SpecFacade == InitFacade /\ [][NextFacade]_vars

\* Submission: the command closure, registration and shutdown.
Next ==
    \/ Loop(SubmitChars)
    \/ terminal_close
    \/ terminal_register_input_callback
    \/ terminal_register_tab_callback

Spec == Init /\ [][Next]_vars

\* The loop thread keeps running: every step of its own that stays possible
\* is taken (the 50 ms poll times out, closures and callbacks return).
\* Whether a key event ever arrives is up to the user.
LoopFairness ==
    /\ WF_vars(Draw)
    /\ WF_vars(PollNoKey)
    /\ WF_vars(OnCommand)
    /\ WF_vars(Dispatch)
    /\ WF_vars(CallbackReturn)
    /\ WF_vars(TabReturn)

SpecFair == Init /\ [][Next]_vars /\ LoopFairness

\* Producer threads logging concurrently with the render loop's frames.
NextLog ==
    \/ \E p \in Producers, message \in ConcTexts : LogLock(p, message, MaxCalls)
    \/ \E p \in Producers : LogLine(p)
    \/ \E p \in Producers : LogTail(p)
    \/ \E p \in Producers : LogUnlock(p)
    \/ Draw
    \/ PollNoKey

SpecLog == Init /\ [][NextLog]_vars

\* The locks: the loop under Enter and Tab with both callbacks registered,
\* while the host's code, on producer threads and inside the callbacks on
\* the loop thread, logs through the facade, binds the logger and adds
\* candidates.
HostCalls(t) ==
    \/ FacadeEnter(t)
    \/ WithLoggerLock(t)
    \/ \E message \in LockTexts : FacadeLogLock(t, message)
    \/ LogLine(t)
    \/ LogTail(t)
    \/ WithLoggerUnlock(t)
    \/ SetLoggerEnter(t)
    \/ SetLoggerLock(t)
    \/ AddCandidateEnter(t)
    \/ AddCandidateLock(t)
    \/ \E candidate \in LockCandidates : AddCandidatePush(t, candidate)

NextLocks ==
    \/ Draw
    \/ PollNoKey
    \/ KeyEnter
    \/ OnCommand
    \/ Dispatch
    \/ CallbackReturn
    \/ KeyTab
    \/ TabReturn
    \/ \E t \in LockThreads : HostCalls(t)

\* A step of a call that no other thread can hold up.  A message of
\* MessageLogger::info is never empty, so LogTail ends its call.
HostProgress(t) ==
    \/ LogLine(t)
    \/ LogTail(t)
    \/ WithLoggerUnlock(t)
    \/ \E candidate \in LockCandidates : AddCandidatePush(t, candidate)

\* A lock().
HostAcquire(t) ==
    \/ WithLoggerLock(t)
    \/ \E message \in LockTexts : FacadeLogLock(t, message)
    \/ SetLoggerLock(t)
    \/ AddCandidateLock(t)

\* Every thread keeps running: a step that stays possible is taken (the 50 ms
\* poll times out, closures and callbacks return, a critical section ends),
\* and a lock that is free again and again is acquired by the thread that
\* waits for it.  Whether a key event arrives, and whether the host's code
\* begins a call, is up to the user and the host.
LocksFairness ==
    /\ WF_vars(PollNoKey \/ OnCommand \/ Dispatch \/ CallbackReturn)
    /\ SF_vars(Draw \/ TabReturn)
    /\ \A t \in LockThreads :
          /\ WF_vars(HostProgress(t))
          /\ SF_vars(HostAcquire(t))

SpecLocks == InitRegistered /\ [][NextLocks]_vars /\ LocksFairness

\* Lines for parse_message_type: up to MaxTokens tokens, each a banner tag,
\* the prefix of another rule, or a letter.
ClassifyTokens ==
    { RustTag(1), RustTag(2), <<"[", "E", "R", "R", "O", "R", "]">>, <<"x">> }

RECURSIVE Concat(_)
Concat(tokens) ==
    IF tokens = <<>> THEN <<>> ELSE Head(tokens) \o Concat(Tail(tokens))

ClassifyTexts ==
    { Concat(tokens) : tokens \in UNION { [1..n -> ClassifyTokens] : n \in 0..MaxTokens } }

\* One line is logged and drawn: draw strips and classifies it.
NextClassify ==
    \/ \E message \in StripTexts \cup ClassifyTexts : LogLock("p1", message, 1)
    \/ LogLine("p1")
    \/ LogTail("p1")
    \/ LogUnlock("p1")
    \/ Draw
    \/ PollNoKey

SpecClassify == Init /\ [][NextClassify]_vars

\* One thread logging one text of any shape.
NextOne ==
    \/ \E message \in AllTexts : LogLock("p1", message, 1)
    \/ LogLine("p1")
    \/ LogTail("p1")
    \/ LogUnlock("p1")

SpecOne == Init /\ [][NextOne]_vars


(***************************************************************************)
(* The message log                                                         *)
(***************************************************************************)
\* The last n elements of a sequence.
LastN(seq, n) == SubSeq(seq, Len(seq) - n + 1, Len(seq))

\* C1: after N lines have been appended in all, by any producers in any
\* interleaving, the log holds exactly the last min(N, C) of them in append
\* order, C = MAX_MESSAGES; so it never holds more than C lines and, once
\* N > C, its oldest line is the (N-C+1)-th line appended.
C1_LogHoldsLastAppended ==
    /\ Len(messages) <= MAX_MESSAGES
    /\ messages = LastN(appended, Min(Len(appended), MAX_MESSAGES))
    /\ Len(appended) > MAX_MESSAGES =>
          messages[1] = appended[Len(appended) - MAX_MESSAGES + 1]

\* Lines of both producers went in, and the log has evicted more than once.
C1_Witness ==
    /\ Len(appended) >= MAX_MESSAGES + 2
    /\ \A p \in Producers : pcall[p] > 0 /\ padded[p] # <<>>
    /\ \E i, j \in 1..Len(messages) : messages[i] # messages[j]

\* The position of every line break of a text.
BreakPositions(text) == {i \in 1..Len(text) : text[i] = LF}

\* The segment that ends at the line break at position b: what lies between
\* the previous line break and b, without the carriage return of a CR LF.
SegmentBefore(text, b) ==
    LET prev == {i \in BreakPositions(text) : i < b}
        from == IF prev = {} THEN 1
                ELSE (CHOOSE i \in prev : \A j \in prev : j <= i) + 1
        upto == IF b - 1 >= from /\ text[b - 1] = CR THEN b - 2 ELSE b - 1
    IN  SubSeq(text, from, upto)

\* The line-break-delimited segments of a text, in order: one per line
\* break, and what follows the last line break if anything does.
Segments(text) ==
    LET bs    == BreakPositions(text)
        n     == Cardinality(bs)
        nth(k) == CHOOSE b \in bs : Cardinality({i \in bs : i <= b}) = k
        last  == IF bs = {} THEN 0 ELSE nth(n)
        ended == [k \in 1..n |-> SegmentBefore(text, nth(k))]
    IN  IF last < Len(text) THEN Append(ended, SubSeq(text, last + 1, Len(text)))
        ELSE ended

\* An explicitly empty message: the empty text, or a lone line break.
ExplicitlyEmpty(text) == text = <<>> \/ text = <<LF>>

\* C2: one call log(text) adds exactly one LogLine per line-break-delimited
\* segment of text, in order, none of which holds a line break; an explicitly
\* empty message ("" or "\n") adds exactly one empty LogLine.
C2_OneLinePerSegment ==
    \A p \in Producers :
        (pcall[p] > 0 /\ ppc[p] = "idle") =>
            /\ padded[p] = IF ExplicitlyEmpty(ptext[p]) THEN << <<>> >>
                           ELSE Segments(ptext[p])
            /\ \A i \in 1..Len(padded[p]) :
                   \A k \in 1..Len(padded[p][i]) : padded[p][i][k] # LF

\* The tags of one append follow each other without a gap: a line that is
\* not the last of its append is followed by the next line of that append,
\* and a line that is not the first is preceded by the one before it.
Contiguous(tags) ==
    \A i \in 1..(Len(tags) - 1) :
        /\ tags[i].idx < tags[i].total =>
              tags[i + 1] = [tags[i] EXCEPT !.idx = @ + 1]
        /\ tags[i + 1].idx > 1 =>
              tags[i] = [tags[i + 1] EXCEPT !.idx = @ - 1]

\* No append is cut off at the end: the newest line is the last of its append.
Complete(tags) == tags # <<>> => tags[Len(tags)].idx = tags[Len(tags)].total

\* C3: appends are atomic.  In the log the lines of one append are always
\* contiguous, and the log a frame is drawn from holds no append of which
\* only a part has been pushed.
C3_AppendsAtomic ==
    /\ Contiguous(msgTags)
    /\ Contiguous(frameTags)
    /\ Complete(frameTags)

\* A frame drawn from a log that holds a whole two-line append of one
\* producer next to a line of the other, while a producer is inside a call.
C3_Witness ==
    /\ \E i \in 1..(Len(frameTags) - 1), j \in 1..Len(frameTags) :
          /\ frameTags[i].total = 2 /\ frameTags[i].idx = 1
          /\ frameTags[j].by # frameTags[i].by
    /\ \E p \in Producers : ppc[p] = "lines" /\ padded[p] # <<>>


(***************************************************************************)
(* The input editor                                                        *)
(***************************************************************************)
\* C4: in every reachable state of the editor the cursor lies within the
\* buffer (0 <= cursor <= length of the buffer, in the bytes the cursor
\* counts) and the history cursor within the history.
C4_CursorsInBounds ==
    /\ 0 <= cursor_position /\ cursor_position <= StrLen(input)
    /\ 0 <= history_index /\ history_index <= Len(history)

\* The cursor stands at the end of a buffer that holds a two-byte character,
\* while an older entry of a full history is being browsed.
C4_Witness ==
    /\ cursor_position = StrLen(input)
    /\ StrLen(input) > Len(input)
    /\ Len(history) = MaxHistory
    /\ history_index < Len(history)

\* The step in which handle_key takes the Enter arm.
EnterStep == pc = "poll" /\ pc' = "on_command"

\* Empty, or nothing but whitespace.
WhitespaceOnly(buffer) == \A i \in 1..Len(buffer) : IsWhitespace(buffer[i])

\* C5 as claimed: Enter on a blank buffer leaves history and history_cursor
\* unchanged, also while history is being browsed.
C5_BlankEnterKeepsHistoryCursor ==
    [][(EnterStep /\ WhitespaceOnly(input)) =>
          (history' = history /\ history_index' = history_index)]_vars

\* C5, amended: Enter on a blank buffer leaves history unchanged and puts
\* history_cursor at the history length; history_cursor is therefore
\* unchanged when history was not being browsed.
C5_BlankEnterResetsHistoryCursor ==
    [][(EnterStep /\ WhitespaceOnly(input)) =>
          /\ history' = history
          /\ history_index' = Len(history)
          /\ (history_index = Len(history) => history_index' = history_index)]_vars

\* A whitespace-only line has just been submitted with history present.
C5_Witness ==
    /\ pc = "on_command"
    /\ cmd # <<>> /\ WhitespaceOnly(cmd)
    /\ history # <<>>
    /\ history_index = Len(history)

\* A string without its outer whitespace: from its first to its last
\* character that is not whitespace.
OuterTrimmed(str) ==
    LET solid == {i \in 1..Len(str) : ~IsWhitespace(str[i])}
    IN  IF solid = {} THEN <<>>
        ELSE SubSeq(str, CHOOSE i \in solid : \A j \in solid : i <= j,
                         CHOOSE i \in solid : \A j \in solid : j <= i)

\* C6: Enter on a non-blank buffer appends the raw buffer as the last history
\* entry, sets history_cursor to the new history length, clears the buffer,
\* sets cursor and scroll offset to 0, and hands the raw line to the command
\* closure without the host's callback having been entered; when the host's
\* callback is entered, these updates are in place and it is handed the
\* submitted line trimmed of outer whitespace.
C6_SubmitThenCallback ==
    [][/\ (EnterStep /\ ~WhitespaceOnly(input)) =>
             /\ history' = Append(history, input)
             /\ history_index' = Len(history) + 1
             /\ input' = <<>>
             /\ cursor_position' = 0
             /\ scroll_offset' = 0
             /\ cmd' = input
             /\ java_input' = NoCall
       /\ (pc # "callback" /\ pc' = "callback") =>
             /\ java_input' = OuterTrimmed(cmd)
             /\ (~WhitespaceOnly(cmd) =>
                    /\ history # <<>>
                    /\ history[Len(history)] = cmd)
             /\ history_index = Len(history)
             /\ input = <<>>
             /\ cursor_position = 0
             /\ scroll_offset = 0
             /\ UNCHANGED editorVars]_vars

\* The host's callback is running on a line whose trimmed form differs from
\* the raw line that became the second history entry.
C6_Witness ==
    /\ pc = "callback"
    /\ java_input # cmd
    /\ java_input # <<>>
    /\ Len(history) = 2
    /\ history[2] = cmd

\* A non-blank command has just been submitted: the closure holds it and no
\* further key has been read.
FreshlySubmitted ==
    /\ pc \in {"on_command", "dispatch", "callback"}
    /\ ~WhitespaceOnly(cmd)

\* C7: right after a non-blank command has been submitted, Up followed by
\* Down gives an empty buffer, cursor 0 and history_cursor at the history
\* length.
C7_UpDownRoundTrip ==
    FreshlySubmitted =>
        LET back == HistoryDown(HistoryUp(Editor))
        IN  /\ back.input = <<>>
            /\ back.cursor_position = 0
            /\ back.history_index = Len(history)
            /\ back.history = history

\* The second of two different commands has just been submitted.
C7_Witness ==
    /\ FreshlySubmitted
    /\ Len(history) = 2
    /\ history[1] # history[2]

\* C8: Up with history_cursor > 0 decrements it and loads that entry with
\* the cursor at the end of the buffer, and does nothing at 0; Down with
\* history_cursor < length increments it and loads that entry, or clears the
\* buffer when it reaches the length, cursor at the end, and does nothing
\* otherwise.  With two entries and not browsing, Up, Up gives the first
\* entry and history_cursor 0, and Down then gives the second.
C8_UpDown ==
    LET up   == HistoryUp(Editor)
        down == HistoryDown(Editor)
        n    == Len(history)
    IN  /\ history_index > 0 =>
              /\ up.history_index = history_index - 1
              /\ up.input = history[history_index]
              /\ up.cursor_position = StrLen(up.input)
              /\ up.history = history
        /\ history_index = 0 => up = Editor
        /\ history_index < n =>
              /\ down.history_index = history_index + 1
              /\ down.input = IF history_index + 1 = n THEN <<>>
                              ELSE history[history_index + 2]
              /\ down.cursor_position = StrLen(down.input)
              /\ down.history = history
        /\ history_index >= n => down = Editor
        /\ (n = 2 /\ history_index = 2) =>
              LET first == HistoryUp(HistoryUp(Editor))
              IN  /\ first.input = history[1]
                  /\ first.history_index = 0
                  /\ HistoryDown(first).input = history[2]
                  /\ HistoryDown(first).history_index = 1

\* Two different entries, the older one loaded by Up, Up: history_cursor 0.
C8_Witness ==
    /\ Len(history) = 2
    /\ history[1] # history[2]
    /\ history_index = 0
    /\ input = history[1]
    /\ cursor_position = StrLen(input)
    /\ pc = "draw"

\* C9: Tab calls the completion callback with (buffer, cursor); an empty
\* answer leaves buffer and cursor as they are, a non-empty one replaces the
\* whole buffer by its first candidate and puts the cursor at that
\* candidate's length; history, history_cursor and scroll offset are
\* unchanged either way.
C9_TabCompletion ==
    [][/\ (pc = "poll" /\ pc' = "on_autocomplete") =>
             /\ tab_call'.buffer = input
             /\ tab_call'.cursor_pos = cursor_position
             /\ UNCHANGED <<editorVars>>
       /\ (pc = "on_autocomplete" /\ pc' # pc) =>
             /\ COMPLETION_CANDIDATES = <<>> =>
                   (input' = input /\ cursor_position' = cursor_position)
             /\ COMPLETION_CANDIDATES # <<>> =>
                   /\ input' = COMPLETION_CANDIDATES[1]
                   /\ cursor_position' = StrLen(COMPLETION_CANDIDATES[1])
             /\ UNCHANGED <<history, history_index, scroll_offset>>
             /\ pc' = "draw"]_vars

\* The completion callback has answered with two different candidates, the
\* buffer is neither, and history and scroll offset are not trivial.
C9_Witness ==
    /\ pc = "on_autocomplete"
    /\ Len(COMPLETION_CANDIDATES) = 2
    /\ COMPLETION_CANDIDATES[1] # COMPLETION_CANDIDATES[2]
    /\ input # <<>>
    /\ \A i \in 1..2 : input # COMPLETION_CANDIDATES[i]
    /\ history # <<>>
    /\ scroll_offset > 0

\* C10: once the shutdown flag is true it stays true; an Enter submission
\* that starts with the flag true ends the loop with Ok without the host's
\* callback being entered; and a loop that has ended never enters it again.
C10_ShutdownEndsLoop ==
    [][/\ SHUTDOWN_SIGNAL => SHUTDOWN_SIGNAL'
       /\ (SHUTDOWN_SIGNAL /\ pc = "on_command" /\ pc' # pc) =>
             /\ pc' = "returned"
             /\ result' = "Ok"
             /\ java_input' = NoCall
       /\ pc = "returned" =>
             /\ pc' = "returned"
             /\ result' = result
             /\ java_input' = NoCall]_vars

\* A non-blank line has been submitted with the flag set and a callback
\* registered.
C10_Witness ==
    /\ pc = "on_command"
    /\ SHUTDOWN_SIGNAL
    /\ JAVA_INPUT_CALLBACK
    /\ ~WhitespaceOnly(cmd)

(***************************************************************************)
(* Shutdown, results and the terminal                                      *)
(***************************************************************************)
\* C11: once the shutdown flag is true (set while the loop idles or during a
\* callback, which then returns), the loop eventually terminates even if no
\* further key event arrives: from a turn of the loop that begins with the
\* flag set, either the loop ends or a key event is read.
C11_ShutdownEndsWithoutKey ==
    (SHUTDOWN_SIGNAL /\ key = NoKey) ~> (pc = "returned" \/ key # NoKey)

\* The step in which on_command returns to the Enter arm.
CommandReturnStep == on_command_result = NoResult /\ on_command_result' # NoResult

\* C12: after a submission the loop exits only when the command callback
\* returned Ok(true); when it returned Ok(false) or an error, the loop keeps
\* running with the editor as Enter left it, and the next frame is drawn.
C12_OnlyTrueExits ==
    /\ [][CommandReturnStep =>
             /\ (pc' = "returned") <=> (on_command_result' = OkTrue)
             /\ on_command_result' = OkTrue => result' = "Ok"
             /\ on_command_result' \in {OkFalse, Err} =>
                   /\ pc' = "draw"
                   /\ result' = "running"
                   /\ UNCHANGED editorVars
                   /\ input' = <<>>
                   /\ cursor_position' = 0
                   /\ scroll_offset' = 0
                   /\ history_index' = Len(history')]_vars
    /\ []((pc = "draw" /\ on_command_result \in {OkFalse, Err}) => ENABLED Draw)

\* A command that went into history failed with an error, and the loop is
\* about to draw the next frame.
C12_Witness ==
    /\ pc = "draw"
    /\ on_command_result = Err
    /\ key = Key("Enter")
    /\ history # <<>>
    /\ result = "running"

\* C13: on every exit path of TerminalUI::run after raw mode has been
\* enabled (normal return, Ctrl-C, an I/O error while entering the alternate
\* screen or creating the terminal, an I/O error while drawing or reading an
\* event, a panic), the terminal ends with raw mode disabled, the alternate
\* screen left and the cursor visible.
C13_TerminalRestored ==
    pc = "finished" => (~raw_mode /\ ~alternate_screen /\ cursor_visible)

(***************************************************************************)
(* The logger facade                                                       *)
(***************************************************************************)
\* A log after `lines` have been appended to it within its capacity.
Appended(log, lines) ==
    LastN(log \o lines, Min(Len(log) + Len(lines), MAX_MESSAGES))

\* C14: a facade call (log, info, error, success, warning, debug) made before
\* any set_logger changes no message log; after set_logger has bound a
\* session's log, every facade call appends to the log of the session bound
\* last and to no other log; set_logger itself changes no log.
C14_FacadeFollowsBinding ==
    [][/\ facade_call' # facade_call =>
             LET lines == Pushes(FacadeFormat(facade_call'.kind, facade_call'.message))
             IN  /\ lines # <<>>
                 /\ last_set = Unbound => UNCHANGED <<messages, other_messages>>
                 /\ last_set = "ui" =>
                       /\ messages' = Appended(messages, lines)
                       /\ UNCHANGED other_messages
                 /\ last_set = "other" =>
                       /\ other_messages' = Appended(other_messages, lines)
                       /\ UNCHANGED messages
       /\ last_set' # last_set => UNCHANGED <<messages, other_messages>>]_vars

\* Both sessions have been bound in turn and each log holds what was logged
\* while it was bound.
C14_Witness ==
    /\ messages # <<>>
    /\ other_messages # <<>>
    /\ messages # other_messages
    /\ GLOBAL_LOGGER # Unbound
    /\ facade_call.n = MaxCalls

(***************************************************************************)
(* Classification of lines                                                 *)
(***************************************************************************)
\* A line holds no escape character.
NoEscape(line) == \A i \in 1..Len(line) : line[i] # ESC

\* C15: for every line that holds no escape sequence, classification is
\* idempotent: classifying the text that parse_message_type returned for the
\* line gives the colour it returned for the line.
C15_ClassifyIdempotent ==
    \A i \in 1..Len(frameLines) :
        NoEscape(frameLines[i]) =>
            parse_message_type(frame.items[i].text).color = frame.items[i].color

\* A line with exactly the sequences ESC '[' ... letter removed (a sequence
\* that no letter ends runs to the end of the line); every other character,
\* the escape character included, stays.
RECURSIVE RemoveCsi(_)
RemoveCsi(line) ==
    IF line = <<>> THEN <<>>
    ELSE IF Len(line) >= 2 /\ line[1] = ESC /\ line[2] = "["
         THEN LET letters == {i \in 3..Len(line) : line[i] \in AsciiAlphabetic}
              IN  IF letters = {} THEN <<>>
                  ELSE RemoveCsi(SubSeq(line,
                           (CHOOSE i \in letters : \A j \in letters : i <= j) + 1,
                           Len(line)))
         ELSE <<line[1]>> \o RemoveCsi(Tail(line))

\* A text without its escape characters.
RECURSIVE WithoutEsc(_)
WithoutEsc(text) ==
    IF text = <<>> THEN <<>>
    ELSE (IF Head(text) = ESC THEN <<>> ELSE <<Head(text)>>) \o WithoutEsc(Tail(text))

\* C16: strip_ansi_codes removes exactly the sequences ESC '[' ... letter and
\* passes every other character through, in order (a character that follows
\* an escape character and is not '[' is kept): each item of a frame is the
\* classification of its line with exactly those sequences removed.  Whether
\* an escape character that begins no sequence is itself passed through is
\* left open: escape characters are disregarded on both sides.
C16_StripRemovesOnlyCsi ==
    \A i \in 1..Len(frameLines) :
        frame.items[i] = parse_message_type(WithoutEsc(RemoveCsi(frameLines[i])))

(***************************************************************************)
(* Scrolling and keys                                                      *)
(***************************************************************************)
\* C17: after each rendered frame scroll_offset lies in
\* [0, max(0, total_lines - visible_height)], total_lines and visible_height
\* being those of the frame; and so a PageDown pressed while the frame on
\* screen is scrolled up (frame.scroll > 0) brings the offset below the
\* position of that frame, whatever PageUp presses went before.
C17_ScrollClamped ==
    [][/\ (pc = "draw" /\ pc' = "poll") =>
             \E height \in Heights :
                 /\ frame' = RenderLog(messages, height, scroll_offset)
                 /\ scroll_offset' \in
                        0..MaxScroll(Len(messages), AvailableHeight(height))
       /\ (pc = "poll" /\ key' = Key("PageDown") /\ frame.scroll > 0) =>
             scroll_offset' < frame.scroll]_vars

\* The InputState of the editor: buffer, cursor, history, history cursor.
InputState == <<input, cursor_position, history, history_index>>

\* A key event outside the handled set: a key code without an arm of its
\* own, a scroll key, or a control-modified character other than Ctrl-C.
Unhandled(k) ==
    \/ k.code \in OtherKeyCodes \cup {"PageUp", "PageDown"}
    \/ k.code = "Char" /\ k.ctrl /\ ~IsCtrlC(k)

\* C18: a key event outside the handled set leaves input, cursor_position,
\* history and history_index unchanged and the loop continues; this includes
\* control-modified characters other than Ctrl-C.
C18_UnhandledKeysIgnored ==
    [][(pc = "poll" /\ Unhandled(key')) =>
            /\ UNCHANGED InputState
            /\ pc' = "draw"]_vars

\* C19: Ctrl-C ends the loop from any editor state: run_loop returns Ok(()),
\* neither the command callback nor the completion callback is called, and
\* input, cursor_position, history and history_index are unchanged, so no
\* 'c' is inserted.
C19_CtrlCTerminates ==
    [][(pc = "poll" /\ key' = CtrlC) =>
            /\ pc' = "returned"
            /\ result' = "Ok"
            /\ UNCHANGED InputState
            /\ UNCHANGED callVars]_vars

\* Ctrl-C ended the loop with text in the buffer and a line in the history.
C19_Witness ==
    /\ pc = "returned"
    /\ key = CtrlC
    /\ input # <<>>
    /\ history # <<>>

\* C20: in every reachable editor state cursor_position, a byte offset, lies
\* on a character boundary of input, and no insert or remove has panicked.
C20_CursorOnCharBoundary ==
    /\ IsCharBoundary(input, cursor_position)
    /\ result # "panic"

(***************************************************************************)
(* Locks                                                                   *)
(***************************************************************************)
\* C21: no lock is held in a way that can deadlock: every lock acquisition
\* eventually succeeds, that is, no thread waits for ever for the lock of
\* GLOBAL_LOGGER (in with_logger or in set_logger), for the lock of the log
\* (in MessageLogger::log under with_logger, or in draw) or for the lock of
\* the candidates (in terminal_add_candidate or in the completion closure,
\* after its callback), whichever thread it is, the loop thread inside a
\* callback included.
C21_LocksAcquired ==
    /\ \A t \in LockThreads :
          /\ []<>(tpc[t] # "with_logger")
          /\ []<>(tpc[t] # "f")
          /\ []<>(tpc[t] # "set_logger")
          /\ []<>(tpc[t] # "add_candidate")
    /\ []<>(pc # "draw")
    /\ []<>(pc # "on_autocomplete")

\* The loop thread, inside the input callback, holds the lock of
\* GLOBAL_LOGGER and the lock of the log while the producer waits for the
\* lock of GLOBAL_LOGGER.
C21_Witness ==
    /\ pc = "callback"
    /\ global_lock = LoopThread
    /\ lock = LoopThread
    /\ tpc["p1"] = "with_logger"

=============================================================================
